---- MODULE Spec2Model ----
(***************************************************************************)
(* LLM benchmark API: the benchmark/result tables, the four /benchmarks    *)
(* endpoints, the fan-out runner (run_benchmark_async), the streaming      *)
(* provider call (call_anthropic_streaming) and the metric calculators.    *)
(*                                                                         *)
(* Encodings.                                                              *)
(*   - A nullable value (Python None, SQL NULL) is a sequence: <<>> is     *)
(*     None/NULL and <<v>> is the value v.  So <<"">> is the empty string, *)
(*     which is not NULL.                                                  *)
(*   - Times are integer milliseconds (the code holds float seconds and    *)
(*     multiplies by 1000 when it stores them).                            *)
(*   - tokens_per_second is an exact fraction <<num, den>> in lowest       *)
(*     terms, in tokens per second.                                        *)
(*   - Prices are integer cents per million tokens, so a cost is an        *)
(*     integer number of 10^-8 USD: (tokens / 10^6) * (cents / 100).       *)
(***************************************************************************)
EXTENDS Integers, Sequences, FiniteSets, TLC

\* ------------------------------------------------------------- bounds
\* Prompts accepted in one behaviour, over all POST /benchmarks requests: the
\* provider calls launched.  It bounds the jobs and the prompts of one job alike.
MaxCalls == 2
\* Most text chunks one provider stream yields.
MaxChunks == 1

\* ------------------------------------------------------------- values
None == <<>>
Some(v) == <<v>>

\* Python truthiness of a `str | None`: None and "" are both falsy.
TruthyStr(o) == o # None /\ o[1] # ""
\* Python truthiness of a `float | None`: None and 0.0 are both falsy.
TruthyNum(o) == o # None /\ o[1] # 0

RECURSIVE GCD(_, _)
GCD(a, b) == IF b = 0 THEN a ELSE GCD(b, a % b)

Abs(n) == IF n < 0 THEN -n ELSE n

\* The fraction n/d (d > 0) in lowest terms.
Ratio(n, d) == LET g == GCD(Abs(n), d) IN <<n \div g, d \div g>>

\* The float 0.0.
Zero == <<0, 1>>

\* ------------------------------------------------------------- metric calculator
ANTHROPIC_PRICING ==
    ("claude-sonnet-4-20250514"   :> [input |-> 300,  output |-> 1500]) @@
    ("claude-opus-4-20250514"     :> [input |-> 1500, output |-> 7500]) @@
    ("claude-3-5-sonnet-20241022" :> [input |-> 300,  output |-> 1500]) @@
    ("claude-3-5-haiku-20241022"  :> [input |-> 80,   output |-> 400])  @@
    ("claude-3-opus-20240229"     :> [input |-> 1500, output |-> 7500]) @@
    ("claude-3-haiku-20240307"    :> [input |-> 25,   output |-> 125])

\* A dict.get(model, default) that forgets the default: an unknown model costs
\* nothing.
calculate_cost_NoDefault(model, input_tokens, output_tokens) ==
    LET pricing == IF model \in DOMAIN ANTHROPIC_PRICING
                   THEN ANTHROPIC_PRICING[model]
                   ELSE [input |-> 0, output |-> 0]
    IN  input_tokens * pricing.input + output_tokens * pricing.output

calculate_cost(model, input_tokens, output_tokens) ==
    LET pricing     == IF model \in DOMAIN ANTHROPIC_PRICING
                       THEN ANTHROPIC_PRICING[model]
                       ELSE [input |-> 300, output |-> 1500]
        input_cost  == input_tokens * pricing.input
        output_cost == output_tokens * pricing.output
    IN  input_cost + output_cost

\* The generation window taken as the whole request time: TTFT is not subtracted.
calculate_tokens_per_second_NoTtft(output_tokens, total_time, ttft) ==
    IF output_tokens = 0 THEN Zero
    ELSE IF total_time <= 0 THEN Zero
    ELSE Ratio(output_tokens * 1000, total_time)

calculate_tokens_per_second(output_tokens, total_time, ttft) ==
    IF output_tokens = 0 THEN Zero
    ELSE LET generation_time == IF ttft # None THEN total_time - ttft[1]
                                ELSE total_time
         IN  IF generation_time <= 0 THEN Zero
             ELSE Ratio(output_tokens * 1000, generation_time)

\* ------------------------------------------------------------- provider call wrapper
\* Messages str(e) of the exceptions a provider call meets.  str(e) is "" for an
\* exception raised without arguments.
ErrMsgs == {"", "net"}

\* Text chunks a stream yields.
Chunks == {"", "x"}

\* The readings of time.perf_counter() in one call: start_time, the chunk that is
\* the first token, end_time of a call that completes, end_time in the `except`
\* block.
Clock(event) ==
    CASE event = "start"       -> 1000
      [] event = "first_token" -> 1200
      [] event = "end"         -> 2000
      [] event = "except"      -> 1500

\* final_message.usage: the provider bills one token per character.
Usage(prompt, text) == [input_tokens |-> Len(prompt), output_tokens |-> Len(text)]

\* The LLMResponse of the `try` block once the stream and the final message are read.
LLMResponse_ok(model, usage, response_text, first_token_time, start_time, end_time) ==
    LET total_time_seconds == end_time - start_time
        ttft_seconds == IF TruthyNum(first_token_time)
                        THEN Some(first_token_time[1] - start_time) ELSE None
        tps  == calculate_tokens_per_second(usage.output_tokens, total_time_seconds,
                                            ttft_seconds)
        cost == calculate_cost(model, usage.input_tokens, usage.output_tokens)
    IN  [response_text     |-> response_text,
         ttft_ms           |-> IF TruthyNum(ttft_seconds) THEN ttft_seconds ELSE None,
         latency_ms        |-> total_time_seconds,
         tokens_per_second |-> tps,
         input_tokens      |-> usage.input_tokens,
         output_tokens     |-> usage.output_tokens,
         cost_usd          |-> cost,
         error             |-> None]

\* The LLMResponse of the `except Exception` block.
LLMResponse_error(msg, start_time, end_time) ==
    [response_text     |-> "",
     ttft_ms           |-> None,
     latency_ms        |-> end_time - start_time,
     tokens_per_second |-> Zero,
     input_tokens      |-> 0,
     output_tokens     |-> 0,
     cost_usd          |-> 0,
     error             |-> Some(msg)]

\* ------------------------------------------------------------- fan-out runner: one task
\* The dict run_single_prompt builds from the wrapper's LLMResponse.
run_single_prompt(prompt, llm_response) ==
    [exc               |-> FALSE,
     prompt            |-> prompt,
     response          |-> IF ~TruthyStr(llm_response.error)
                           THEN Some(llm_response.response_text) ELSE None,
     ttft_ms           |-> llm_response.ttft_ms,
     latency_ms        |-> llm_response.latency_ms,
     tokens_per_second |-> llm_response.tokens_per_second,
     input_tokens      |-> llm_response.input_tokens,
     output_tokens     |-> llm_response.output_tokens,
     cost_usd          |-> llm_response.cost_usd,
     error             |-> llm_response.error]

\* What gather(return_exceptions=True) hands back for a task that raised.
TaskException(msg) == [exc |-> TRUE, msg |-> msg]

\* A coroutine run_single_prompt(prompt, model) that has not run yet.
NewTask(prompt) ==
    [pc               |-> "created",
     prompt           |-> prompt,
     chunks           |-> 0,
     response_text    |-> "",
     first_token_time |-> None,
     llm              |-> None,
     result           |-> None]

\* The task after call_anthropic_streaming returned llm_response (its frame, with
\* the accumulated text, is gone).
Returned(task, llm_response) ==
    [NewTask(task.prompt) EXCEPT
                 !.pc = "returned",
                 !.llm = Some(llm_response),
                 !.result = Some(run_single_prompt(task.prompt, llm_response))]

\* The task after an exception left call_anthropic_streaming.
Raised(task, msg) ==
    [NewTask(task.prompt) EXCEPT
                 !.pc = "raised", !.result = Some(TaskException(msg))]

\* ------------------------------------------------------------- state
VARIABLES
    jobs,       \* table benchmarks, committed: id -> row
    results,    \* table benchmark_results, committed, in insertion order
    created,    \* benchmark rows inserted so far: the last value of the id
                \* sequence, where the database keeps one
    accepted,   \* the POST requests accepted so far, in order: the id the job
                \* row received and the number of prompts submitted
    run,        \* the POST /benchmarks handlers in progress, by slot: the frame
                \* of create_benchmark and of the run_benchmark_async it
                \* awaits, or NoRun
    last,       \* the response the last step sent
    calc        \* one evaluation of the metric calculator: arguments and values

vars == <<jobs, results, created, accepted, run, last, calc>>

Names  == {"", "t"}
\* The model of the requests: a name the pricing table does not hold.
Models == {"m"}
PromptNames == <<"a", "b", "c", "d">>
\* The prompts lists of the requests: the first n prompt names, n = 0..MaxCalls.
PromptLists == {[i \in 1..n |-> PromptNames[i]] : n \in 0..MaxCalls}
\* Path ids of GET and DELETE: every id a row can have, and one no row has.
Ids == 1..(MaxCalls + 1)

\* run.settled holds the tasks in the order in which they settled.
NoRun == [pc |-> "idle", id |-> 0, model |-> "", prompts |-> <<>>,
          tasks |-> <<>>, settled |-> <<>>, errors |-> <<>>]

\* last: the response the last step sent: op is the endpoint ("none" when the
\* step sent no response), code the HTTP status, status and count the job status
\* and the number of results (of summaries, for the list) in the body.
Resp(op, code, status, count) ==
    [op |-> op, code |-> code, status |-> status, count |-> count]
NoResp == Resp("none", 0, "", 0)

\* The slots of the POST /benchmarks handlers that can be in progress at once.
Slots == DOMAIN run

\* The event loop runs one handler at a time up to its next await: another
\* request is served, and a provider call goes on, only while no handler is
\* between two awaits.
LoopFree == \A r \in Slots : run[r].pc \in {"idle", "gather"}

\* The slot a new handler takes: the first one that is free.
FreeSlot == CHOOSE r \in Slots \cup {0} :
                \/ r = 0 /\ \A q \in Slots : run[q].pc # "idle"
                \/ r \in Slots /\ run[r].pc = "idle"
                   /\ \A q \in Slots : q < r => run[q].pc # "idle"

\* Rows of benchmark_results owned by job id.
ResultsOf(rows, id) == SelectSeq(rows, LAMBDA r : r.benchmark_id = Some(id))

\* No evaluation of the metric calculator is followed.
NoCalc == [model |-> "", input_tokens |-> 0, output_tokens |-> 0,
           total_time |-> 0, ttft |-> None, tps |-> None, cost |-> None]

\* The prompts submitted over all the accepted requests.
RECURSIVE Launched(_)
Launched(reqs) ==
    IF reqs = <<>> THEN 0 ELSE reqs[Len(reqs)].prompts + Launched(SubSeq(reqs, 1, Len(reqs) - 1))

\* The ids the INSERT of a benchmarks row can assign.  `id INTEGER PRIMARY KEY`
\* is the rowid in SQLite (the configured database_url): one more than the
\* largest id in the table, so the id of a deleted last row is given again.
\* PostgreSQL (the production database config.py names) draws it from a
\* sequence, which never gives a value twice.
NextIds(rows, sequence) ==
    {sequence + 1,
     IF DOMAIN rows = {} THEN 1
     ELSE 1 + CHOOSE m \in DOMAIN rows : \A n \in DOMAIN rows : n <= m}

\* The service with an empty database, whose clients send one POST /benchmarks
\* at a time: the next one after the answer to the last.
Init ==
    /\ jobs = <<>>
    /\ results = <<>>
    /\ created = 0
    /\ accepted = <<>>
    /\ run = [r \in {1} |-> NoRun]
    /\ last = NoResp
    /\ calc = NoCalc

\* The same service with two POST /benchmarks in progress at once.
InitConcurrent ==
    /\ jobs = <<>>
    /\ results = <<>>
    /\ created = 0
    /\ accepted = <<>>
    /\ run = [r \in {1, 2} |-> NoRun]
    /\ last = NoResp
    /\ calc = NoCalc

\* ------------------------------------------------------------- POST /benchmarks
\* BenchmarkCreate without min_length on prompts.
BenchmarkCreate_valid_AnyPrompts(name, prompts) ==
    /\ Len(name) >= 1
    /\ Len(name) <= 255

\* BenchmarkCreate: name has min_length 1 and max_length 255, prompts min_length 1.
BenchmarkCreate_valid(name, prompts) ==
    /\ Len(name) >= 1
    /\ Len(name) <= 255
    /\ Len(prompts) >= 1

\* The request body fails validation: FastAPI answers 422 before the handler runs.
create_benchmark_invalid(name, model, prompts) ==
    /\ LoopFree
    /\ ~BenchmarkCreate_valid(name, prompts)
    /\ last' = Resp("create", 422, "", 0)
    /\ UNCHANGED <<jobs, results, created, accepted, run, calc>>

\* create_benchmark up to its commit: the job row is inserted as pending.
create_benchmark(r, name, model, prompts) ==
    /\ LoopFree
    /\ r = FreeSlot
    /\ Launched(accepted) + Len(prompts) <= MaxCalls
    /\ BenchmarkCreate_valid(name, prompts)
    /\ \E id \in NextIds(jobs, created) :
        /\ jobs' = jobs @@ (id :> [name |-> name, model |-> model,
                                   status |-> "pending",
                                   started_at |-> None, completed_at |-> None])
        /\ created' = created + 1
        /\ accepted' = Append(accepted, [id |-> id, prompts |-> Len(prompts)])
        /\ run' = [run EXCEPT ![r] = [NoRun EXCEPT !.pc = "created", !.id = id,
                                                      !.model = model,
                                                      !.prompts = prompts]]
        /\ last' = NoResp
    /\ UNCHANGED <<results, calc>>

\* run_benchmark_async up to the await of gather: status running is committed,
\* one coroutine per prompt is created.
run_start(r) ==
    /\ run[r].pc = "created"
    /\ jobs' = [jobs EXCEPT ![run[r].id].status = "running",
                            ![run[r].id].started_at = Some("utcnow")]
    /\ run' = [run EXCEPT ![r].pc = "gather",
                          ![r].tasks = [i \in 1..Len(run[r].prompts) |->
                                        NewTask(run[r].prompts[i])]]
    /\ last' = NoResp
    /\ UNCHANGED <<results, created, accepted, calc>>

\* ------------------------------------------------------------- one provider call
TaskAt(r, i, pc) ==
    /\ LoopFree
    /\ run[r].pc = "gather"
    /\ i \in DOMAIN run[r].tasks
    /\ run[r].tasks[i].pc = pc

SetTask(r, i, task) ==
    /\ run' = [run EXCEPT ![r].tasks[i] = task,
                          ![r].settled = IF task.pc \in {"returned", "raised"}
                                      THEN Append(@, i) ELSE @]
    /\ last' = NoResp
    /\ UNCHANGED <<jobs, results, created, accepted, calc>>

\* The coroutine starts: AsyncAnthropic(...) is built, start_time is read, and
\* the coroutine awaits the opening of the stream.
task_start(r, i) ==
    /\ TaskAt(r, i, "created")
    /\ SetTask(r, i, [run[r].tasks[i] EXCEPT !.pc = "connect"])

\* AsyncAnthropic(...) raises: the constructor call stands before the `try`.
task_start_raise(r, i, msg) ==
    /\ TaskAt(r, i, "created")
    /\ SetTask(r, i, Raised(run[r].tasks[i], msg))

\* `async with client.messages.stream(...)` is entered.
task_connect(r, i) ==
    /\ TaskAt(r, i, "connect")
    /\ SetTask(r, i, [run[r].tasks[i] EXCEPT !.pc = "stream"])

\* Opening the stream raises.
task_connect_error(r, i, msg) ==
    /\ TaskAt(r, i, "connect")
    /\ SetTask(r, i, Returned(run[r].tasks[i],
                          LLMResponse_error(msg, Clock("start"), Clock("except"))))

\* The iteration with one response_text shared by the calls in flight: the chunk
\* is appended to the text of every call that is streaming.
task_chunk_SharedBuffer(r, i, text) ==
    /\ TaskAt(r, i, "stream")
    /\ run[r].tasks[i].chunks < MaxChunks
    /\ run' = [run EXCEPT ![r].tasks =
           [j \in DOMAIN run[r].tasks |->
               IF run[r].tasks[j].pc # "stream" THEN run[r].tasks[j]
               ELSE [run[r].tasks[j] EXCEPT
                        !.response_text = @ \o text,
                        !.chunks = IF j = i THEN @ + 1 ELSE @,
                        !.first_token_time =
                            IF j = i /\ @ = None /\ text # ""
                            THEN Some(Clock("first_token")) ELSE @]]]
    /\ last' = NoResp
    /\ UNCHANGED <<jobs, results, created, accepted, calc>>

\* One iteration of `async for text in stream.text_stream`.
task_chunk(r, i, text) ==
    /\ TaskAt(r, i, "stream")
    /\ run[r].tasks[i].chunks < MaxChunks
    /\ LET task == run[r].tasks[i] IN
       SetTask(r, i, [task EXCEPT
           !.first_token_time = IF task.first_token_time = None /\ text # ""
                                THEN Some(Clock("first_token"))
                                ELSE task.first_token_time,
           !.response_text = task.response_text \o text,
           !.chunks = task.chunks + 1])

\* The stream raises while it is iterated.
task_stream_error(r, i, msg) ==
    /\ TaskAt(r, i, "stream")
    /\ LET task == run[r].tasks[i] IN
       SetTask(r, i, Returned(task, LLMResponse_error(msg, Clock("start"), Clock("except"))))

\* The stream ends and stream.get_final_message() raises.
task_final_error(r, i, msg) ==
    /\ TaskAt(r, i, "stream")
    /\ LET task == run[r].tasks[i] IN
       SetTask(r, i, Returned(task, LLMResponse_error(msg, Clock("start"), Clock("except"))))

\* The stream ends, the final message is read and the metrics are computed.
task_finish(r, i) ==
    /\ TaskAt(r, i, "stream")
    /\ LET task == run[r].tasks[i] IN
       SetTask(r, i, Returned(task,
           LLMResponse_ok(run[r].model, Usage(task.prompt, task.response_text),
                          task.response_text, task.first_token_time,
                          Clock("start"), Clock("end"))))

\* ------------------------------------------------------------- fan-out runner: fan-in
\* gather(*tasks, return_exceptions=True) has every task's outcome.
AllSettled(r) ==
    \A i \in DOMAIN run[r].tasks : run[r].tasks[i].pc \in {"returned", "raised"}

\* The outcomes in the order in which the tasks settled (what
\* asyncio.as_completed would hand over) instead of the order of gather.
ResultsData_SettleOrder(r) ==
    [i \in DOMAIN run[r].tasks |-> run[r].tasks[run[r].settled[i]].result[1]]

\* results_data, in the order of the tasks.
ResultsData(r) == [i \in DOMAIN run[r].tasks |-> run[r].tasks[i].result[1]]

\* The BenchmarkResult the loop builds for one element of results_data.
BenchmarkResult(id, benchmark_id, result_data) ==
    IF result_data.exc
    THEN [id |-> id, benchmark_id |-> Some(benchmark_id),
          prompt |-> "(unknown - task failed)",
          response |-> None, ttft_ms |-> None, latency_ms |-> None,
          tokens_per_second |-> None, input_tokens |-> None,
          output_tokens |-> None, cost_usd |-> None,
          error |-> Some(result_data.msg)]
    ELSE [id |-> id, benchmark_id |-> Some(benchmark_id),
          prompt |-> result_data.prompt,
          response |-> result_data.response,
          ttft_ms |-> result_data.ttft_ms,
          latency_ms |-> Some(result_data.latency_ms),
          tokens_per_second |-> Some(result_data.tokens_per_second),
          input_tokens |-> Some(result_data.input_tokens),
          output_tokens |-> Some(result_data.output_tokens),
          cost_usd |-> Some(result_data.cost_usd),
          error |-> result_data.error]

\* The loop without its isinstance(result_data, Exception) branch: a task that
\* raised leaves no row.
NewRows_DropRaised(results_data, benchmark_id, last_id) ==
    LET kept == SelectSeq(results_data, LAMBDA result_data : ~result_data.exc)
    IN  [i \in DOMAIN kept |-> BenchmarkResult(last_id + i, benchmark_id, kept[i])]

\* The rows db.add() receives, one per element of results_data; the ids continue
\* the table's.
NewRows(results_data, benchmark_id, last_id) ==
    [i \in DOMAIN results_data |->
        BenchmarkResult(last_id + i, benchmark_id, results_data[i])]

\* The list `errors` after the loop over results_data.
CollectErrors(results_data) ==
    LET acc[k \in 0..Len(results_data)] ==
            IF k = 0 THEN <<>>
            ELSE LET result_data == results_data[k] IN
                 IF result_data.exc THEN Append(acc[k - 1], result_data.msg)
                 ELSE IF TruthyStr(result_data.error)
                      THEN Append(acc[k - 1], result_data.error[1])
                      ELSE acc[k - 1]
    IN  acc[Len(results_data)]

\* "Update final status".
FinalStatus(errors, prompts) ==
    IF Len(errors) = Len(prompts) THEN "failed" ELSE "completed"

\* The handler ends in an unhandled exception: FastAPI answers 500, get_db closes
\* the session.
ServerError(r) ==
    /\ run' = [run EXCEPT ![r] = NoRun]
    /\ last' = Resp("create", 500, "", 0)

\* The results and the final status committed in one unit of work.
run_save_OneCommit(r) ==
    /\ LoopFree
    /\ run[r].pc = "gather"
    /\ AllSettled(r)
    /\ run[r].id \in DOMAIN jobs
    /\ results' = results \o NewRows(ResultsData(r), run[r].id, Len(results))
    /\ jobs' = [jobs EXCEPT ![run[r].id].status =
                                FinalStatus(CollectErrors(ResultsData(r)), run[r].prompts),
                            ![run[r].id].completed_at = Some("utcnow")]
    /\ run' = [run EXCEPT ![r].pc = "saved",
                          ![r].errors = CollectErrors(ResultsData(r)),
                          ![r].tasks = <<>>]
    /\ last' = NoResp
    /\ UNCHANGED <<created, accepted, calc>>

\* gather returns; the loop builds the rows and `errors`; "Commit all results at
\* once".  Without its job row the INSERT passes only where the database does not
\* enforce foreign keys (SQLite without the foreign_keys pragma).
run_save(r) ==
    /\ LoopFree
    /\ run[r].pc = "gather"
    /\ AllSettled(r)
    /\ results' = results \o NewRows(ResultsData(r), run[r].id, Len(results))
    /\ run' = [run EXCEPT ![r].pc = "saved",
                          ![r].errors = CollectErrors(ResultsData(r)),
                          ![r].tasks = <<>>]
    /\ last' = NoResp
    /\ UNCHANGED <<jobs, created, accepted, calc>>

\* The same commit where foreign keys are enforced and the job row is gone:
\* IntegrityError, nothing is inserted.
run_save_integrity_error(r) ==
    /\ LoopFree
    /\ run[r].pc = "gather"
    /\ AllSettled(r)
    /\ run[r].id \notin DOMAIN jobs
    /\ ServerError(r)
    /\ UNCHANGED <<jobs, results, created, accepted, calc>>

\* The final status and completed_at are set and committed.
run_finalize(r) ==
    /\ run[r].pc = "saved"
    /\ run[r].id \in DOMAIN jobs
    /\ jobs' = [jobs EXCEPT ![run[r].id].status =
                                FinalStatus(run[r].errors, run[r].prompts),
                            ![run[r].id].completed_at = Some("utcnow")]
    /\ run' = [run EXCEPT ![r].pc = "final"]
    /\ last' = NoResp
    /\ UNCHANGED <<results, created, accepted, calc>>

\* The same commit with the job row gone: the UPDATE matches no row,
\* StaleDataError.
run_finalize_stale(r) ==
    /\ run[r].pc = "saved"
    /\ run[r].id \notin DOMAIN jobs
    /\ ServerError(r)
    /\ UNCHANGED <<jobs, results, created, accepted, calc>>

\* db.refresh(benchmark); the handler returns it and the response is built from
\* the row and its results.
run_return(r) ==
    /\ run[r].pc = "final"
    /\ last' = Resp("create", 201, jobs[run[r].id].status,
                    Len(ResultsOf(results, run[r].id)))
    /\ run' = [run EXCEPT ![r] = NoRun]
    /\ UNCHANGED <<jobs, results, created, accepted, calc>>

\* ------------------------------------------------------------- GET, DELETE
\* The rows of benchmarks in id order.
JobIds == LET ids == DOMAIN jobs
              ord[k \in 0..Cardinality(ids)] ==
                  IF k = 0 THEN <<>>
                  ELSE LET rest == ids \ {ord[k - 1][j] : j \in 1..(k - 1)}
                       IN  Append(ord[k - 1],
                                  CHOOSE m \in rest : \A n \in rest : m <= n)
          IN  ord[Cardinality(ids)]

\* query.offset(skip).limit(limit).all()
Page(seq, skip, limit) ==
    SubSeq(seq, skip + 1, IF skip + limit < Len(seq) THEN skip + limit ELSE Len(seq))

list_benchmarks(skip, limit) ==
    /\ LoopFree
    /\ last' = Resp("list", 200, "", Len(Page(JobIds, skip, limit)))
    /\ UNCHANGED <<jobs, results, created, accepted, run, calc>>

get_benchmark(benchmark_id) ==
    /\ LoopFree
    /\ last' = IF benchmark_id \notin DOMAIN jobs
               THEN Resp("get", 404, "", 0)
               ELSE Resp("get", 200, jobs[benchmark_id].status,
                         Len(ResultsOf(results, benchmark_id)))
    /\ UNCHANGED <<jobs, results, created, accepted, run, calc>>

\* The flush of db.delete(benchmark): Benchmark.results has neither a delete
\* cascade nor passive_deletes, so the unit of work first detaches the children
\* (UPDATE benchmark_results SET benchmark_id = NULL) and then deletes the row.
Detach(rows, benchmark_id) ==
    [k \in DOMAIN rows |->
        IF rows[k].benchmark_id = Some(benchmark_id)
        THEN [rows[k] EXCEPT !.benchmark_id = None] ELSE rows[k]]

\* benchmark_results.benchmark_id is nullable=False.
NotNullHolds(rows) == \A k \in DOMAIN rows : rows[k].benchmark_id # None

delete_benchmark(benchmark_id) ==
    /\ LoopFree
    /\ IF benchmark_id \notin DOMAIN jobs
       THEN /\ last' = Resp("delete", 404, "", 0)
            /\ UNCHANGED <<jobs, results>>
       ELSE LET flushed == Detach(results, benchmark_id) IN
            IF NotNullHolds(flushed)
            THEN /\ jobs' = [j \in DOMAIN jobs \ {benchmark_id} |-> jobs[j]]
                 /\ results' = flushed
                 /\ last' = Resp("delete", 204, "", 0)
            ELSE \* IntegrityError: the transaction is rolled back, 500
                 /\ last' = Resp("delete", 500, "", 0)
                 /\ UNCHANGED <<jobs, results>>
    /\ UNCHANGED <<created, accepted, run, calc>>

\* ------------------------------------------------------------- specification
Next ==
    \/ \E name \in Names, model \in Models, prompts \in PromptLists :
           create_benchmark_invalid(name, model, prompts)
    \/ \E r \in Slots, name \in Names, model \in Models, prompts \in PromptLists :
           create_benchmark(r, name, model, prompts)
    \/ \E r \in Slots : run_start(r)
    \/ \E r \in Slots, i \in 1..MaxCalls : task_start(r, i)
    \/ \E r \in Slots, i \in 1..MaxCalls, msg \in ErrMsgs : task_start_raise(r, i, msg)
    \/ \E r \in Slots, i \in 1..MaxCalls : task_connect(r, i)
    \/ \E r \in Slots, i \in 1..MaxCalls, msg \in ErrMsgs : task_connect_error(r, i, msg)
    \/ \E r \in Slots, i \in 1..MaxCalls, text \in Chunks : task_chunk(r, i, text)
    \/ \E r \in Slots, i \in 1..MaxCalls, msg \in ErrMsgs : task_stream_error(r, i, msg)
    \/ \E r \in Slots, i \in 1..MaxCalls, msg \in ErrMsgs : task_final_error(r, i, msg)
    \/ \E r \in Slots, i \in 1..MaxCalls : task_finish(r, i)
    \/ \E r \in Slots : run_save(r)
    \/ \E r \in Slots : run_save_integrity_error(r)
    \/ \E r \in Slots : run_finalize(r)
    \/ \E r \in Slots : run_finalize_stale(r)
    \/ \E r \in Slots : run_return(r)
    \/ \E skip \in {0, 1}, limit \in {1, 20} : list_benchmarks(skip, limit)
    \/ \E benchmark_id \in Ids : get_benchmark(benchmark_id)
    \/ \E benchmark_id \in Ids : delete_benchmark(benchmark_id)

Spec == Init /\ [][Next]_vars

ConcurrentSpec == InitConcurrent /\ [][Next]_vars

\* ------------------------------------------------------------- the metric calculator alone
\* Largest token count of an evaluation.
MaxTokens == 2

MetricModels == DOMAIN ANTHROPIC_PRICING \cup {"m"}
\* total_time_seconds and ttft_seconds, in milliseconds.
MetricTimes == {0, 200, 1000}
MetricTtfts == {None} \cup {Some(t) : t \in {0, 200, 1000, 1200}}

InitMetric ==
    /\ jobs = <<>>
    /\ results = <<>>
    /\ created = 0
    /\ accepted = <<>>
    /\ run = [r \in {1} |-> NoRun]
    /\ last = NoResp
    /\ calc \in [model : MetricModels,
                 input_tokens : 0..MaxTokens,
                 output_tokens : 0..MaxTokens,
                 total_time : MetricTimes,
                 ttft : MetricTtfts,
                 tps : {None},
                 cost : {None}]

eval_tokens_per_second ==
    /\ calc.tps = None
    /\ calc' = [calc EXCEPT !.tps = Some(calculate_tokens_per_second(
                                calc.output_tokens, calc.total_time, calc.ttft))]
    /\ UNCHANGED <<jobs, results, created, accepted, run, last>>

eval_cost ==
    /\ calc.cost = None
    /\ calc' = [calc EXCEPT !.cost = Some(calculate_cost(
                                calc.model, calc.input_tokens, calc.output_tokens))]
    /\ UNCHANGED <<jobs, results, created, accepted, run, last>>

NextMetric == eval_tokens_per_second \/ eval_cost

MetricSpec == InitMetric /\ [][NextMetric]_vars

\* ------------------------------------------------------------- properties
Terminal == {"completed", "failed"}

\* Every row of the sequence carries a non-null error.
AllCarryError(rows) == \A k \in DOMAIN rows : rows[k].error # None

\* C1: once the runner has committed a job's final status, the status is failed
\* if and only if every result of the job carries a non-null error, and
\* completed otherwise.
C1_FailedIffAllErrors ==
    \A id \in DOMAIN jobs :
        jobs[id].status \in Terminal =>
            (jobs[id].status = "failed" <=> AllCarryError(ResultsOf(results, id)))

\* C2: a DELETE of an existing job that owns results answers 204 and removes the
\* job and all of its results, leaving the other rows as they were.
C2_DeleteCascades ==
    [][\A id \in Ids :
          (/\ delete_benchmark(id)
           /\ id \in DOMAIN jobs
           /\ ResultsOf(results, id) # <<>>)
          => /\ last'.code = 204
             /\ id \notin DOMAIN jobs'
             /\ ResultsOf(results', id) = <<>>
             /\ \A other \in Ids \ {id} :
                   ResultsOf(results', other) = ResultsOf(results, other)]_vars

\* C3: every persisted result has a response and no error, or an error and no
\* response.
C3_ResponseXorError ==
    \A k \in DOMAIN results :
        \/ results[k].response # None /\ results[k].error = None
        \/ results[k].response = None /\ results[k].error # None

\* C4, as claimed: no committed state holds results of a job whose status is
\* still running.
C4_NoResultsWhileRunning ==
    \A id \in DOMAIN jobs :
        jobs[id].status = "running" => ResultsOf(results, id) = <<>>

\* C4, amended: the runner commits all the results of the job at once, one per
\* prompt, in a commit that leaves the benchmarks table as it is, and the final
\* status in the commit after that, which leaves the results as they are; rows
\* are added by no other step, and a job turns terminal in no other step.
C4_ResultsThenStatus ==
    [][/\ \A r \in Slots :
            /\ run[r].pc = "gather" /\ run'[r].pc = "saved" =>
                  /\ jobs' = jobs
                  /\ Len(results') = Len(results) + Len(run[r].prompts)
            /\ run[r].pc = "saved" /\ run'[r].pc = "final" =>
                  /\ results' = results
                  /\ jobs'[run[r].id].status \in Terminal
                  /\ jobs'[run[r].id].completed_at # None
       /\ Len(results') > Len(results) =>
              \E r \in Slots : run[r].pc = "gather" /\ run'[r].pc = "saved"
       /\ \A id \in DOMAIN jobs \cap DOMAIN jobs' :
              jobs[id].status \notin Terminal /\ jobs'[id].status \in Terminal =>
                  \E r \in Slots : /\ run[r].pc = "saved" /\ run'[r].pc = "final"
                                   /\ id = run[r].id
      ]_vars

\* The results are committed and the status is still running.
C4_Witness ==
    /\ run[1].pc = "saved"
    /\ run[1].id \in DOMAIN jobs
    /\ jobs[run[1].id].status = "running"
    /\ Len(ResultsOf(results, run[1].id)) = 2

\* C5: a provider call that fails never ends in an exception: it returns a
\* result with empty text, no TTFT, zero tokens, cost and tokens per second, and
\* the error.
C5_WrapperNeverRaises ==
    \A r \in Slots : \A i \in DOMAIN run[r].tasks :
        LET task == run[r].tasks[i] IN
        /\ task.pc # "raised"
        /\ task.pc = "returned" /\ task.llm[1].error # None =>
               /\ task.llm[1].response_text = ""
               /\ task.llm[1].ttft_ms = None
               /\ task.llm[1].input_tokens = 0
               /\ task.llm[1].output_tokens = 0
               /\ task.llm[1].cost_usd = 0
               /\ task.llm[1].tokens_per_second = Zero

\* C6: the runner creates one task per prompt, resumes only when all have
\* settled, and then inserts one row per prompt, in task order, each built from
\* its own task's outcome alone; a step of one task leaves its siblings as they
\* are.
C6_OneResultPerPrompt ==
    [][\A r \in Slots :
       /\ run[r].pc = "created" /\ run'[r].pc = "gather" =>
              /\ Len(run'[r].tasks) = Len(run[r].prompts)
              /\ \A i \in DOMAIN run'[r].tasks :
                    run'[r].tasks[i].prompt = run[r].prompts[i]
       /\ run[r].pc = "gather" /\ run'[r].pc = "gather" =>
              \A i, j \in DOMAIN run[r].tasks :
                  i # j /\ run'[r].tasks[i] # run[r].tasks[i] =>
                      run'[r].tasks[j] = run[r].tasks[j]
       /\ run[r].pc = "gather" /\ run'[r].pc = "saved" =>
              /\ AllSettled(r)
              /\ Len(results') = Len(results) + Len(run[r].prompts)
              /\ SubSeq(results', 1, Len(results)) = results
              /\ \A i \in 1..Len(run[r].prompts) :
                    LET row  == results'[Len(results) + i]
                        task == run[r].tasks[i]
                    IN  /\ row.benchmark_id = Some(run[r].id)
                        /\ IF task.pc = "raised"
                           THEN /\ row.prompt = "(unknown - task failed)"
                                /\ row.error = Some(task.result[1].msg)
                                /\ row.response = None
                           ELSE /\ row.prompt = run[r].prompts[i]
                                /\ row.error = task.llm[1].error
                                /\ task.llm[1].error = None =>
                                       row.response = Some(task.llm[1].response_text)
                                /\ row.ttft_ms = task.llm[1].ttft_ms
                                /\ row.latency_ms = Some(task.llm[1].latency_ms)
                                /\ row.tokens_per_second =
                                       Some(task.llm[1].tokens_per_second)
                                /\ row.input_tokens = Some(task.llm[1].input_tokens)
                                /\ row.output_tokens = Some(task.llm[1].output_tokens)
                                /\ row.cost_usd = Some(task.llm[1].cost_usd)
      ]_vars

\* Two prompts, one call failed and raised, the other succeeded: both are
\* recorded.
C6_Witness ==
    /\ run[1].pc = "saved"
    /\ LET rows == ResultsOf(results, run[1].id) IN
        /\ Len(rows) = 2
        /\ rows[1].prompt = "(unknown - task failed)"
        /\ rows[2].prompt = "b" /\ rows[2].error = None /\ rows[2].response = Some("x")

\* A POST /benchmarks with this body.
Post(name, model, prompts) ==
    \/ create_benchmark_invalid(name, model, prompts)
    \/ \E r \in Slots : create_benchmark(r, name, model, prompts)

\* C7: a POST whose name is empty or whose prompts list is empty is answered 422
\* and changes no row, creates no job and launches no call.
C7_InvalidPostRejected ==
    [][\A name \in Names, model \in Models, prompts \in PromptLists :
          (name = "" \/ prompts = <<>>) /\ Post(name, model, prompts) =>
              /\ last'.op = "create" /\ last'.code = 422
              /\ UNCHANGED <<jobs, results, created, accepted, run>>]_vars

\* A POST was answered 422 and the tables are empty.
C7_Witness ==
    /\ last.op = "create" /\ last.code = 422
    /\ jobs = <<>> /\ results = <<>> /\ \A r \in Slots : run[r] = NoRun

\* C8: the job a POST returns is completed or failed, never pending or running,
\* carries one result per prompt, and is failed when all of its results carry
\* an error.
C8_ReturnedJobTerminal ==
    [][\A r \in Slots :
          run[r].pc = "final" /\ run'[r].pc = "idle" =>
              /\ last'.op = "create" /\ last'.code = 201
              /\ last'.status \in Terminal
              /\ last'.count = Len(run[r].prompts)
              /\ AllCarryError(ResultsOf(results, run[r].id)) =>
                     last'.status = "failed"
      ]_vars

\* C9: tokens per second is 0 for no output tokens and for a generation window
\* that is not positive, and otherwise the output tokens over the window: total
\* minus TTFT when there is a TTFT, else total.
C9_TokensPerSecond ==
    calc.tps # None =>
        LET window == IF calc.ttft # None THEN calc.total_time - calc.ttft[1]
                      ELSE calc.total_time
            tps    == calc.tps[1]
        IN  /\ calc.output_tokens = 0 => tps = Zero
            /\ window <= 0 => tps = Zero
            /\ calc.output_tokens # 0 /\ window > 0 =>
                   /\ tps[2] > 0
                   /\ tps[1] * window = calc.output_tokens * 1000 * tps[2]

\* 2 tokens, 1 s in total, TTFT 0.2 s: 2.5 tokens per second.
C9_Witness ==
    /\ calc.output_tokens = 2 /\ calc.total_time = 1000 /\ calc.ttft = Some(200)
    /\ calc.tps = Some(<<5, 2>>)

\* C10: the cost is not negative and is tokens times price, input plus output,
\* at the prices of the model's table entry, or at 3.00 and 15.00 USD per
\* million tokens for a model the table does not hold.
C10_Cost ==
    calc.cost # None =>
        LET price_in  == IF calc.model \in DOMAIN ANTHROPIC_PRICING
                         THEN ANTHROPIC_PRICING[calc.model].input ELSE 300
            price_out == IF calc.model \in DOMAIN ANTHROPIC_PRICING
                         THEN ANTHROPIC_PRICING[calc.model].output ELSE 1500
        IN  /\ calc.cost[1] >= 0
            /\ calc.cost[1] = calc.input_tokens * price_in
                              + calc.output_tokens * price_out

\* A model the table does not hold, 1 input and 2 output tokens.
C10_Witness ==
    /\ calc.model = "m" /\ calc.input_tokens = 1 /\ calc.output_tokens = 2
    /\ calc.cost = Some(3300)

\* C11: while provider calls of a run are in flight the runner writes nothing:
\* a step of a call leaves the tables and the id sequence as they are, and the
\* runner goes on from the gather (to its adds and commits) only when every call
\* has settled.  The calls share no buffer: a step changes one call only, a
\* chunk is appended to the text of the call that received it, and the text a
\* successful call returns is the text it accumulated itself.
C11_NoSessionWriteInFlight ==
    [][\A r \in Slots :
       /\ run[r].pc = "gather" /\ run'[r].pc = "gather" /\ run'[r] # run[r] =>
              UNCHANGED <<jobs, results, created>>
       /\ run[r].pc = "gather" /\ run'[r].pc # "gather" => AllSettled(r)
       /\ run[r].pc = "gather" /\ run'[r].pc = "gather" =>
              /\ Cardinality({q \in Slots : run'[q] # run[q]}) <= 1
              /\ Cardinality({i \in DOMAIN run[r].tasks :
                                 run'[r].tasks[i] # run[r].tasks[i]}) <= 1
              /\ \A i \in DOMAIN run[r].tasks :
                    LET old == run[r].tasks[i]
                        new == run'[r].tasks[i]
                    IN  old.pc = "stream" =>
                        \/ new = old
                        \/ /\ new.pc = "stream"
                           /\ \E text \in Chunks :
                                  new.response_text = old.response_text \o text
                        \/ /\ new.pc = "returned"
                           /\ new.llm[1].error = None =>
                                  new.llm[1].response_text = old.response_text
      ]_vars

\* One call has settled, the other is streaming and has its own text; the job
\* is running and nothing is recorded for it.
C11_Witness ==
    /\ run[1].pc = "gather"
    /\ Len(run[1].tasks) = 2
    /\ run[1].tasks[1].pc = "returned"
    /\ run[1].tasks[2].pc = "stream" /\ run[1].tasks[2].response_text = "x"
    /\ run[1].id \in DOMAIN jobs /\ jobs[run[1].id].status = "running"
    /\ results = <<>>

\* C12: the results commit inserts the rows in the order of the submitted
\* prompts, whatever the order in which the calls settled: the i-th row inserted,
\* with the i-th id given, carries the i-th prompt and the outcome of the i-th
\* call, or is the task-failed placeholder exactly when the i-th call raised.
C12_ResultsInPromptOrder ==
    [][\A r \in Slots :
          run[r].pc = "gather" /\ run'[r].pc = "saved" =>
              /\ Len(run[r].settled) = Len(run[r].prompts)
              /\ \A i \in 1..Len(run[r].prompts) :
                    LET row == results'[Len(results) + i] IN
                    /\ row.id = Len(results) + i
                    /\ row.prompt = "(unknown - task failed)" <=>
                           run[r].tasks[i].pc = "raised"
                    /\ row.prompt # "(unknown - task failed)" =>
                           /\ row.prompt = run[r].prompts[i]
                           /\ row.error = run[r].tasks[i].llm[1].error
      ]_vars

\* Prompts a and b, b settled first and failed, a succeeded with one token in
\* 0.8 s: the first row is a's, the second b's.
C12_Witness ==
    /\ run[1].pc = "saved"
    /\ run[1].prompts = <<"a", "b">>
    /\ run[1].settled = <<2, 1>>
    /\ Len(results) = 2
    /\ results[1].prompt = "a" /\ results[1].error = None
    /\ results[1].tokens_per_second = Some(<<5, 4>>)
    /\ results[2].prompt = "b" /\ results[2].error = Some("net")
    /\ results[2].response = None

\* C13: a job row is created pending, without timestamps; it changes only from
\* pending to running, with started_at, in the step of its run that precedes
\* the launch of the calls, and from running to completed or failed, with
\* completed_at, once its run has persisted the results, so while no run of
\* that job is still waiting for its calls; completed_at is set only on a
\* terminal job; GET list and GET by id change no job and no result.
C13_StatusMovesForward ==
    [][/\ \A id \in DOMAIN jobs' \ DOMAIN jobs :
              /\ jobs'[id].status = "pending"
              /\ jobs'[id].started_at = None
              /\ jobs'[id].completed_at = None
       /\ \A id \in DOMAIN jobs \cap DOMAIN jobs' :
              jobs'[id] # jobs[id] =>
                  \/ /\ jobs[id].status = "pending"
                     /\ jobs'[id].status = "running"
                     /\ jobs'[id].started_at # None
                     /\ jobs'[id].completed_at = None
                     /\ \E r \in Slots :
                            /\ run[r].id = id /\ run[r].pc = "created"
                            /\ \A i \in DOMAIN run'[r].tasks :
                                   run'[r].tasks[i].pc = "created"
                  \/ /\ jobs[id].status = "running"
                     /\ jobs'[id].status \in Terminal
                     /\ jobs'[id].completed_at # None
                     /\ \E r \in Slots : run[r].id = id /\ run[r].pc = "saved"
                     /\ \A r \in Slots : run[r].id = id => run[r].pc = "saved"
       /\ \A id \in DOMAIN jobs :
              jobs[id].completed_at # None => jobs[id].status \in Terminal
       /\ \A id \in Ids : get_benchmark(id) => UNCHANGED <<jobs, results>>
       /\ \A skip \in {0, 1}, limit \in {1, 20} :
              list_benchmarks(skip, limit) => UNCHANGED <<jobs, results>>
      ]_vars

\* C14: in every committed state each result row references a job row that
\* exists.
C14_ReferentialIntegrity ==
    \A k \in DOMAIN results :
        /\ results[k].benchmark_id # None
        /\ results[k].benchmark_id[1] \in DOMAIN jobs

\* The number of prompts submitted for the job that holds this id: those of the
\* last request accepted under it.
Submitted(id) ==
    LET own == SelectSeq(accepted, LAMBDA req : req.id = id)
    IN  own[Len(own)].prompts

\* C15: in every committed state a completed or failed job owns as many results
\* as prompts were submitted for it, and a pending job owns none.
C15_TerminalJobsAreComplete ==
    \A id \in DOMAIN jobs :
        /\ jobs[id].status \in Terminal =>
               Len(ResultsOf(results, id)) = Submitted(id)
        /\ jobs[id].status = "pending" => ResultsOf(results, id) = <<>>

====
